---- MODULE Spec2Model ----
(***************************************************************************)
(* Incremental-load subsystem of the retail data warehouse ETL:            *)
(* watermark store (watermark_manager.py), record validator and            *)
(* incremental loader (incremental_load.py), the stand-alone fact loader   *)
(* (load_fact_sales_incremental.py) and the SCD Type-2 customer loaders    *)
(* (load_customer_multisource.py, load_customer_scd.py).                   *)
(*                                                                         *)
(* Representation.  A nullable cell (SQL NULL, Python None, pandas NaN/NaT)*)
(* is the empty set and a present value v is the singleton {v}, so that    *)
(* cells of any type can be tested for NULL.  A DataFrame is the set of    *)
(* its rows (a sequence where the iteration order matters); a row is a     *)
(* record whose DOMAIN is the DataFrame's column set.  Database tables     *)
(* without a key are bags of rows.                                         *)
(***************************************************************************)
EXTENDS Integers, Sequences, FiniteSets, Bags, TLC

VARIABLES
    wm,         \* table etl_watermark: (table_name, source_system) -> row
    fact,       \* table fact_sales: bag of rows
    quarantine, \* table etl_rejected_records: bag of rows
    dim,        \* table dim_customer: sequence of rows, customer_key = index
    now,        \* CURRENT_TIMESTAMP / datetime.now(): one tick per call
    today,      \* date.today()
    call,       \* what the last call read, did and returned
    etl_status, \* _status["etl"]["status"] of the API process
    pc,         \* where each trigger of the pipeline stands
    quality_results  \* self.quality_results of the AdvancedDataQuality object

vars == <<wm, fact, quarantine, dim, now, today, call, etl_status, pc, quality_results>>

\* The state of the API and of the scheduler
triggers == <<etl_status, pc>>

---------------------------------------------------------------------------
(* Bounds of the model *)

MaxTs == 3       \* source timestamps are 1..MaxTs
MaxCalls == 2    \* calls in one behaviour
MaxBatch == 2    \* rows in one source DataFrame
MaxDay == 2      \* date.today() is 1..MaxDay
MaxKeys == 11    \* customer keys of the integrity check are 1..MaxKeys
MaxRows == 120    \* rows of a column the anomaly check reads

---------------------------------------------------------------------------
(* Values *)

NULL == {}
Some(v) == {v}
IsNull(c) == c = NULL
Val(c) == CHOOSE v \in c : TRUE

\* a > b as pandas and SQL evaluate it: never true when a side is NULL
Gt(a, b) == \E x \in a, y \in b : x > y
Lt(a, b) == \E x \in a, y \in b : x < y

Timestamps == 1..MaxTs
\* Timestamp.date(): two timestamps fall on each calendar day
DateOf(c) == {(t + 1) \div 2 : t \in c}

\* Series.max(): the largest non-null value, NaT for none
ColMax(df, col) ==
    LET vs == UNION {r[col] : r \in df}
    IN  IF vs = {} THEN NULL ELSE {CHOOSE m \in vs : \A v \in vs : m >= v}

\* What can start the pipeline: two POST /etl/run requests and the
\* scheduler's cron job
ApiRequests == {"post1", "post2"}
Triggers == ApiRequests \cup {"cron"}

Tables == {"fact_sales", "dim_customer"}
Sources == {"RETAIL_OLTP", "CUSTOMER_DEMOGRAPHICS"}
NoSource == "None"     \* source_system=None
SourceArgs == Sources \cup {NoSource}

\* quality_results of a new AdvancedDataQuality object
NoResults ==
    [checks_passed |-> 0, checks_failed |-> 0, checks_warning |-> 0,
     details |-> <<>>]

---------------------------------------------------------------------------
(* Watermark store: watermark_manager.py *)

\* Python None, returned when no row matches
NONE == [found |-> FALSE]

WatermarkDict(row) ==
    [found |-> TRUE,
     timestamp |-> row.last_loaded_timestamp,
     date |-> row.last_loaded_date,
     invoice |-> row.last_invoice_number,
     records_processed |-> row.records_processed,
     records_rejected |-> row.records_rejected]

\* ORDER BY last_loaded_timestamp DESC on PostgreSQL: NULLs sort first
DescRank(ts) == IF IsNull(ts) THEN MaxTs + 1 ELSE Val(ts)

\* The results get_last_watermark can return (LIMIT 1 picks any of the
\* rows that tie for first place)
get_last_watermark(w, table_name, source_system) ==
    IF source_system # NoSource
    THEN IF <<table_name, source_system>> \in DOMAIN w
         THEN {WatermarkDict(w[<<table_name, source_system>>])}
         ELSE {NONE}
    ELSE LET rows == {k \in DOMAIN w : k[1] = table_name}
             first == {k \in rows : \A j \in rows :
                          DescRank(w[k].last_loaded_timestamp)
                              >= DescRank(w[j].last_loaded_timestamp)}
         IN  IF rows = {} THEN {NONE} ELSE {WatermarkDict(w[k]) : k \in first}

\* A plain assignment in place of COALESCE
COALESCE_Overwrite(new, old) == new

COALESCE(new, old) == IF IsNull(new) THEN old ELSE new

\* The rows the UPDATE's WHERE clause selects
WatermarkTarget(k, table_name, source_system) ==
    /\ k[1] = table_name
    /\ source_system # NoSource => k[2] = source_system

\* update_watermark: one UPDATE in one transaction; no row is inserted
update_watermark(w, table_name, source_system, new_timestamp, new_date, invoice_number, records_processed, records_rejected, ts) ==
    [k \in DOMAIN w |->
        IF WatermarkTarget(k, table_name, source_system)
        THEN [last_loaded_timestamp |->
                  COALESCE(new_timestamp, w[k].last_loaded_timestamp),
              last_loaded_date |-> COALESCE(new_date, w[k].last_loaded_date),
              last_invoice_number |->
                  COALESCE(invoice_number, w[k].last_invoice_number),
              records_processed |-> w[k].records_processed + records_processed,
              records_rejected |-> w[k].records_rejected + records_rejected,
              updated_at |-> ts]
        ELSE w[k]]

\* A row of etl_watermark as the schema seeds it, before any load
SeedRow ==
    [last_loaded_timestamp |-> NULL, last_loaded_date |-> NULL,
     last_invoice_number |-> NULL, records_processed |-> 0,
     records_rejected |-> 0, updated_at |-> 0]

---------------------------------------------------------------------------
(* Record validator: incremental_load.py *)

get_critical_columns(table_name) ==
    CASE table_name = "fact_sales" ->
            {"time_key", "customer_key", "product_key", "store_key",
             "quantity", "unit_price"}
      [] table_name = "dim_product" -> {"product_key", "product_name"}
      [] table_name = "dim_customer" -> {"customer_key", "customer_name"}
      [] table_name = "dim_store" -> {"store_key", "store_name"}
      [] OTHER -> {}

\* 'amount' in col.lower() or 'quantity' in col.lower() or 'price' in
\* col.lower(), over the column names of the model's frames
IsAmountColumn(col) ==
    col \in {"quantity", "unit_price"}

\* df.columns; a DataFrame's rows share their columns
Columns(df) == UNION {DOMAIN r : r \in df}

\* The columns of the model's frames that hold numbers or dates; the other
\* columns hold strings (dtype object)
NumberColumns ==
    {"transaction_date", "modified_date", "time_key", "customer_key",
     "product_key", "store_key", "customer_id", "quantity", "unit_price"}

\* select_dtypes(include=['number'])
NumericColumns(df) ==
    Columns(df) \cap (NumberColumns \ {"transaction_date", "modified_date"})

\* Mutant of RowValid: the null check of the critical columns is left out
RowValid_NoNullCheck(df, table_name, r) ==
    \A col \in NumericColumns(df) :
        IsAmountColumn(col) => ~Lt(r[col], Some(0))

\* valid_mask of one row
RowValid(df, table_name, r) ==
    /\ \A col \in get_critical_columns(table_name) :
           col \in Columns(df) => ~IsNull(r[col])
    /\ \A col \in NumericColumns(df) :
           IsAmountColumn(col) => ~Lt(r[col], Some(0))

validate_records(df, table_name) ==
    [valid |-> {r \in df : RowValid(df, table_name, r)},
     rejected |-> {r \in df : ~RowValid(df, table_name, r)}]

---------------------------------------------------------------------------
(* Incremental loader, shared steps: incremental_load.py *)

\* Mutant of NewRecords: the watermark's own timestamp counts as new
NewRecords_Inclusive(source_df, timestamp_column, watermark) ==
    IF watermark.found /\ ~IsNull(watermark.timestamp)
    THEN {r \in source_df :
             ~Lt(r[timestamp_column], watermark.timestamp)}
    ELSE IF watermark.found /\ ~IsNull(watermark.date)
    THEN {r \in source_df :
             Gt(DateOf(r[timestamp_column]), watermark.date)}
    ELSE source_df

\* The rows newer than the watermark; a first run keeps every row
NewRecords(source_df, timestamp_column, watermark) ==
    IF watermark.found /\ ~IsNull(watermark.timestamp)
    THEN {r \in source_df : Gt(r[timestamp_column], watermark.timestamp)}
    ELSE IF watermark.found /\ ~IsNull(watermark.date)
    THEN {r \in source_df :
             Gt(DateOf(r[timestamp_column]), watermark.date)}
    ELSE source_df

\* Where a call can stop: an exception raised by a step, or the process
\* killed between two steps.  raise_write stands for an exception raised
\* before the target table's transaction commits, by the validation or by
\* the write itself (the write is one transaction and rolls back).
FaultPoints ==
    {"none", "raise_write", "raise_quarantine", "raise_watermark",
     "kill_before_watermark"}

\* Mutant of StepsDone: the watermark is updated before the target table is
\* written
StepsDone_MarkFirst(fault) ==
    CASE fault = "raise_write" ->
            [write |-> FALSE, log |-> FALSE, mark |-> TRUE,
             status |-> "raised"]
      [] fault = "raise_watermark" ->
            [write |-> FALSE, log |-> FALSE, mark |-> FALSE,
             status |-> "raised"]
      [] fault = "kill_before_watermark" ->
            [write |-> FALSE, log |-> FALSE, mark |-> FALSE,
             status |-> "killed"]
      [] fault = "raise_quarantine" ->
            [write |-> TRUE, log |-> FALSE, mark |-> TRUE, status |-> "ok"]
      [] OTHER ->
            [write |-> TRUE, log |-> TRUE, mark |-> TRUE, status |-> "ok"]

\* The steps of a load that take effect, in the order the loader runs them:
\* validate, write the target table, log the rejected rows, update the
\* watermark.  A failure to log the rejected rows is caught and the load
\* goes on.
StepsDone(fault) ==
    CASE fault = "raise_write" ->
            [write |-> FALSE, log |-> FALSE, mark |-> FALSE,
             status |-> "raised"]
      [] fault = "raise_watermark" ->
            [write |-> TRUE, log |-> TRUE, mark |-> FALSE,
             status |-> "raised"]
      [] fault = "kill_before_watermark" ->
            [write |-> TRUE, log |-> TRUE, mark |-> FALSE,
             status |-> "killed"]
      [] fault = "raise_quarantine" ->
            [write |-> TRUE, log |-> FALSE, mark |-> TRUE, status |-> "ok"]
      [] OTHER ->
            [write |-> TRUE, log |-> TRUE, mark |-> TRUE, status |-> "ok"]

\* A fault happens only at a step the call runs
FaultApplies(fault, new_records, valid, rejected) ==
    /\ fault # "none" => new_records # {}
    /\ fault = "raise_quarantine" => rejected # {}

\* log_rejected_records: the rejected rows with their metadata columns
log_rejected_records(q, rejected_df, table_name, source_system, ts) ==
    q (+) SetToBag({[row |-> r,
                     rejection_timestamp |-> ts,
                     source_table |-> table_name,
                     source_system |-> source_system,
                     rejection_reason |-> "Validation failed"] :
                    r \in rejected_df})

NoStats == [inserted |-> 0, updated |-> 0, rejected |-> 0, total |-> 0]

\* Mutant of NoNewRecords: the early return is missing
NoNewRecords_Never(new_records) == FALSE

\* len(new_records) == 0: the call returns before it validates or writes
NoNewRecords(new_records) == new_records = {}

---------------------------------------------------------------------------
(* Fact mode: IncrementalLoader.load_fact_sales_incremental *)

\* The state and the return value a call ends with.  The rows of fact_sales
\* form a bag, so the order sort_values gives the batch leaves no trace.
load_fact_sales_incremental(w, f, q, source_df, source_system, watermark, fault, ts) ==
    LET table_name == "fact_sales"
        timestamp_column == "transaction_date"
        new_records == NewRecords(source_df, timestamp_column, watermark)
        parts == validate_records(new_records, table_name)
        done == StepsDone(fault)
        new_timestamp == ColMax(source_df, timestamp_column)
        stats == [inserted |-> Cardinality(parts.valid),
                  updated |-> 0,
                  rejected |-> Cardinality(parts.rejected),
                  total |-> Cardinality(new_records)]
    IN  IF NoNewRecords(new_records)
        THEN [wm |-> w, fact |-> f, quarantine |-> q, status |-> "ok",
              result |-> NoStats, new_records |-> {}, valid |-> {},
              rejected |-> {}]
        ELSE [wm |-> IF done.mark
                     THEN update_watermark(w, table_name, source_system,
                              new_timestamp, DateOf(new_timestamp), NULL,
                              stats.inserted, stats.rejected, ts)
                     ELSE w,
              fact |-> IF done.write THEN f (+) SetToBag(parts.valid) ELSE f,
              quarantine |->
                  IF done.log
                  THEN log_rejected_records(q, parts.rejected, table_name,
                                            source_system, ts)
                  ELSE q,
              status |-> done.status,
              result |-> IF done.status = "ok" THEN stats ELSE NoStats,
              new_records |-> new_records,
              valid |-> parts.valid,
              rejected |-> parts.rejected]

\* Source extracts handed to fact mode
FactSourceRows ==
    [transaction_date : {Some(t) : t \in Timestamps},
     customer_key : {NULL, Some(1)},
     quantity : {Some(1)}]

FactFrames == {df \in SUBSET FactSourceRows : Cardinality(df) <= MaxBatch}

\* The source systems the loader is called for
LoaderSourceArgs == {NoSource, "RETAIL_OLTP"}

---------------------------------------------------------------------------
(* Dimension mode: IncrementalLoader.load_dimension_incremental *)

DimColumns ==
    {"customer_key", "customer_id", "customer_name", "state", "email",
     "customer_segment", "effective_date", "expiry_date", "is_current",
     "source_system", "modified_date"}

\* a = b in a WHERE clause: not true when a side is NULL
SqlEq(a, b) == ~IsNull(a) /\ a = b

\* sort_values(col) followed by iterrows(): the rows by ascending col, rows
\* with equal col in either order
SortValues(df, col) ==
    {s \in [1..Cardinality(df) -> df] :
        /\ \A i, j \in DOMAIN s : i # j => s[i] # s[j]
        /\ \A i, j \in DOMAIN s : i < j => ~Gt(s[i][col], s[j][col])}

\* Dimension mode filters on the timestamp watermark alone
NewRecordsDimension(source_df, timestamp_column, watermark) ==
    IF watermark.found /\ ~IsNull(watermark.timestamp)
    THEN {r \in source_df : Gt(r[timestamp_column], watermark.timestamp)}
    ELSE source_df

\* One iteration of the loop of upsert_dimension: UPDATE every row that
\* carries the key, or INSERT the row (customer_key is the serial key, a
\* column the row does not name is NULL)
UpsertRow(d, row, unique_key) ==
    LET hit == {i \in DOMAIN d : SqlEq(d[i][unique_key], row[unique_key])}
    IN  IF hit # {}
        THEN [dim |-> [i \in DOMAIN d |->
                         IF i \in hit
                         THEN [c \in DimColumns |->
                                 IF c \in DOMAIN row /\ c # unique_key
                                 THEN row[c] ELSE d[i][c]]
                         ELSE d[i]],
              inserted |-> 0, updated |-> 1]
        ELSE [dim |-> Append(d, [c \in DimColumns |->
                                   IF c \in DOMAIN row THEN row[c]
                                   ELSE IF c = "customer_key"
                                   THEN Some(Len(d) + 1) ELSE NULL]),
              inserted |-> 1, updated |-> 0]

RECURSIVE upsert_dimension(_, _, _)
upsert_dimension(d, rows, unique_key) ==
    IF rows = <<>>
    THEN [dim |-> d, inserted |-> 0, updated |-> 0]
    ELSE LET one == UpsertRow(d, Head(rows), unique_key)
             rest == upsert_dimension(one.dim, Tail(rows), unique_key)
         IN  [dim |-> rest.dim,
              inserted |-> one.inserted + rest.inserted,
              updated |-> one.updated + rest.updated]

\* The state and the return value a call ends with; sorted is new_records
\* in the order of iteration
load_dimension_incremental(w, d, q, source_df, table_name, timestamp_column, unique_key, source_system, sorted, fault, ts) ==
    LET new_records == {sorted[i] : i \in DOMAIN sorted}
        parts == validate_records(new_records, table_name)
        valid_records == SelectSeq(sorted, LAMBDA r : r \in parts.valid)
        done == StepsDone(fault)
        upserted == upsert_dimension(d, valid_records, unique_key)
        new_timestamp == ColMax(source_df, timestamp_column)
        stats == [inserted |-> upserted.inserted,
                  updated |-> upserted.updated,
                  rejected |-> Cardinality(parts.rejected),
                  total |-> 0]
    IN  IF NoNewRecords(new_records)
        THEN [wm |-> w, dim |-> d, quarantine |-> q, status |-> "ok",
              result |-> NoStats, new_records |-> {}, valid |-> {},
              rejected |-> {}]
        ELSE [wm |-> IF done.mark
                     THEN update_watermark(w, table_name, source_system,
                              new_timestamp, DateOf(new_timestamp), NULL,
                              stats.inserted + stats.updated, stats.rejected,
                              ts)
                     ELSE w,
              dim |-> IF done.write THEN upserted.dim ELSE d,
              quarantine |->
                  IF done.log
                  THEN log_rejected_records(q, parts.rejected, table_name,
                                            source_system, ts)
                  ELSE q,
              status |-> done.status,
              result |-> IF done.status = "ok" THEN stats ELSE NoStats,
              new_records |-> new_records,
              valid |-> parts.valid,
              rejected |-> parts.rejected]

\* Source extracts handed to dimension mode
DimSourceRows ==
    [customer_id : {Some(1)},
     customer_name : {NULL, Some("Ann")},
     state : {Some("CA"), Some("NY")},
     modified_date : {Some(t) : t \in Timestamps}]

DimFrames ==
    {df \in SUBSET {r \in DimSourceRows :
                       IsNull(r.customer_name) => r.state = Some("CA")} :
        Cardinality(df) <= MaxBatch}

---------------------------------------------------------------------------
(* SCD Type-2 customer dimension: load_customer_scd.py and                 *)
(* load_customer_multisource.py.  Of the descriptive columns the model     *)
(* keeps customer_name and the three the loaders compare.                  *)

\* expiry_date of an open row, '9999-12-31'
FarFuture == 99991231

\* float NaN, the missing value of a string column of a merged DataFrame
NAN == Some("NaN")
\* pd.notna
NotNA(c) == c # NULL /\ c # NAN
\* Python's a != b: NaN differs from every value, itself included
PyNe(a, b) == a # b \/ a = NAN \/ b = NAN

\* SELECT ... WHERE customer_id = :cid AND is_current = TRUE
CurrentRows(d, cid) ==
    {i \in DOMAIN d : SqlEq(d[i].customer_id, cid)
                      /\ d[i].is_current = Some(TRUE)}

\* fetchone(): the first row of the result
FetchOne(rows) == CHOOSE i \in rows : \A j \in rows : i <= j

\* Mutant of InsertCustomer: the new version starts the day after
InsertCustomer_NextDay(d, m, day) ==
    Append(d, [customer_key |-> Some(Len(d) + 1),
               customer_id |-> m.customer_id,
               customer_name |-> m.customer_name,
               state |-> m.state,
               email |-> m.email,
               customer_segment |-> m.customer_segment,
               effective_date |-> Some(day + 1),
               expiry_date |-> Some(FarFuture),
               is_current |-> Some(TRUE),
               source_system |-> m.source_system,
               modified_date |-> NULL])

\* INSERT INTO dim_customer (...) VALUES (..., :eff, '9999-12-31', TRUE, ...)
InsertCustomer(d, m, day) ==
    Append(d, [customer_key |-> Some(Len(d) + 1),
               customer_id |-> m.customer_id,
               customer_name |-> m.customer_name,
               state |-> m.state,
               email |-> m.email,
               customer_segment |-> m.customer_segment,
               effective_date |-> Some(day),
               expiry_date |-> Some(FarFuture),
               is_current |-> Some(TRUE),
               source_system |-> m.source_system,
               modified_date |-> NULL])

\* Mutant of ExpireCustomer: the closed row keeps is_current
ExpireCustomer_KeepCurrent(d, ck, day) ==
    [i \in DOMAIN d |->
        IF SqlEq(d[i].customer_key, ck)
        THEN [d[i] EXCEPT !.expiry_date = Some(day)]
        ELSE d[i]]

\* UPDATE dim_customer SET expiry_date = :exp, is_current = FALSE
\* WHERE customer_key = :ck
ExpireCustomer(d, ck, day) ==
    [i \in DOMAIN d |->
        IF SqlEq(d[i].customer_key, ck)
        THEN [d[i] EXCEPT !.expiry_date = Some(day),
                          !.is_current = Some(FALSE)]
        ELSE d[i]]

\* One iteration of the SCD loop: insert a first version, or close the
\* current version and insert the next when a compared column differs
ScdRow(d, m, tracked, day) ==
    LET cur == CurrentRows(d, m.customer_id)
    IN  IF cur = {}
        THEN [dim |-> InsertCustomer(d, m, day),
              inserted |-> 1, updated |-> 0, skipped |-> 0]
        ELSE LET i == FetchOne(cur)
                 changed == \E c \in tracked : PyNe(d[i][c], m[c])
             IN  IF changed
                 THEN [dim |-> InsertCustomer(
                                   ExpireCustomer(d, d[i].customer_key, day),
                                   m, day),
                       inserted |-> 0, updated |-> 1, skipped |-> 0]
                 ELSE [dim |-> d,
                       inserted |-> 0, updated |-> 0, skipped |-> 1]

\* Mutant of ScdLoop: the rows are applied from the last to the first
RECURSIVE ScdLoop_Reversed(_, _, _, _)
ScdLoop_Reversed(d, rows, tracked, day) ==
    IF rows = <<>>
    THEN [dim |-> d, inserted |-> 0, updated |-> 0, skipped |-> 0]
    ELSE LET one == ScdRow(d, rows[Len(rows)], tracked, day)
             rest == ScdLoop_Reversed(one.dim,
                         SubSeq(rows, 1, Len(rows) - 1), tracked, day)
         IN  [dim |-> rest.dim,
              inserted |-> one.inserted + rest.inserted,
              updated |-> one.updated + rest.updated,
              skipped |-> one.skipped + rest.skipped]

RECURSIVE ScdLoop(_, _, _, _)
ScdLoop(d, rows, tracked, day) ==
    IF rows = <<>>
    THEN [dim |-> d, inserted |-> 0, updated |-> 0, skipped |-> 0]
    ELSE LET one == ScdRow(d, Head(rows), tracked, day)
             rest == ScdLoop(one.dim, Tail(rows), tracked, day)
         IN  [dim |-> rest.dim,
              inserted |-> one.inserted + rest.inserted,
              updated |-> one.updated + rest.updated,
              skipped |-> one.skipped + rest.skipped]

\* df[[...]].drop_duplicates(): the first occurrence of each row, in order
RECURSIVE DropDuplicates(_)
DropDuplicates(rows) ==
    IF rows = <<>> THEN <<>>
    ELSE LET init == DropDuplicates(SubSeq(rows, 1, Len(rows) - 1))
             last == rows[Len(rows)]
         IN  IF \E i \in DOMAIN init : init[i] = last
             THEN init ELSE Append(init, last)

\* customers = df[["CustomerID", "Country"]].drop_duplicates()
CustomersOf(csv) ==
    DropDuplicates([i \in DOMAIN csv |->
                       [customer_id |-> csv[i].CustomerID,
                        Country |-> csv[i].Country]])

\* The columns of load_customer_scd.py's INSERT: the name is 'Unknown' and
\* the columns it does not name are NULL
ScdRows(customers) ==
    [i \in DOMAIN customers |->
        [customer_id |-> customers[i].customer_id,
         customer_name |-> Some("Unknown"),
         state |-> customers[i].Country,
         email |-> NULL, customer_segment |-> NULL,
         source_system |-> NULL]]

\* load_customer_scd.py: the whole loop is one transaction
load_customer_scd(d, csv, day, fault) ==
    LET cleaned == SelectSeq(csv, LAMBDA r : ~IsNull(r.CustomerID))
        loop == ScdLoop(d, ScdRows(CustomersOf(cleaned)), {"state"}, day)
    IN  IF fault = "raise_write"
        THEN [dim |-> d, status |-> "raised"]
        ELSE [dim |-> loop.dim, status |-> "ok"]

---------------------------------------------------------------------------
(* Multi-source reconciler: load_customer_multisource.py *)

\* oltp_data.merge(demographics_data, on='customer_id', how='left'): the rows
\* of the left frame in order, each once per matching right row, and with
\* NaN in the right frame's columns when none matches
RECURSIVE LeftMerge(_, _)
LeftMerge(oltp_data, demographics_data) ==
    IF oltp_data = <<>> THEN <<>>
    ELSE LET o == Head(oltp_data)
             hits == SelectSeq(demographics_data,
                         LAMBDA x : SqlEq(x.customer_id, o.customer_id))
             joined == IF hits = <<>>
                       THEN <<[customer_id |-> o.customer_id,
                               Country |-> o.Country,
                               customer_name |-> NAN, email |-> NAN,
                               customer_segment |-> NAN, city |-> NAN,
                               state |-> NAN]>>
                       ELSE [i \in DOMAIN hits |->
                               [customer_id |-> o.customer_id,
                                Country |-> o.Country,
                                customer_name |-> hits[i].customer_name,
                                email |-> hits[i].email,
                                customer_segment |->
                                    hits[i].customer_segment,
                                city |-> hits[i].city,
                                state |-> hits[i].state]]
         IN  joined \o LeftMerge(Tail(oltp_data), demographics_data)

\* row.get('state_oltp', row['Country'])
StateOltpOr(row, default) ==
    IF "state_oltp" \in DOMAIN row THEN row["state_oltp"] ELSE default

\* The entry the loop appends for a merged row, if any
ConflictsOf(row) ==
    IF /\ NotNA(row.Country) /\ NotNA(row.city)
       /\ PyNe(row.Country, StateOltpOr(row, row.Country))
    THEN <<[customer_id |-> row.customer_id,
            field_name |-> "country",
            source1_value |-> StateOltpOr(row, NULL),
            source2_value |-> row.Country,
            resolved_value |-> row.Country,
            resolution_rule |-> "OLTP_PRIORITY_RECENT_TRANSACTION"]>>
    ELSE <<>>

RECURSIVE ReconciliationLog(_)
ReconciliationLog(merged) ==
    IF merged = <<>> THEN <<>>
    ELSE ConflictsOf(Head(merged)) \o ReconciliationLog(Tail(merged))

reconcile_customer_data(oltp_data, demographics_data) ==
    LET merged == LeftMerge(oltp_data, demographics_data)
    IN  [merged |->
            [i \in DOMAIN merged |->
                [customer_id |-> merged[i].customer_id,
                 Country |-> merged[i].Country,
                 city |-> merged[i].city,
                 state |-> IF NotNA(merged[i].Country)
                           THEN merged[i].Country
                           ELSE StateOltpOr(merged[i], NULL),
                 customer_name |-> IF NotNA(merged[i].customer_name)
                                   THEN merged[i].customer_name
                                   ELSE Some("Unknown"),
                 email |-> merged[i].email,
                 customer_segment |-> merged[i].customer_segment,
                 source_system |-> IF NotNA(merged[i].email)
                                   THEN Some("MULTI_SOURCE")
                                   ELSE Some("RETAIL_OLTP")]],
         log |-> ReconciliationLog(merged)]

\* merged_customers when the demographics file is missing or empty:
\* row.get of a column the frame lacks is None
OltpOnly(customers) ==
    [i \in DOMAIN customers |->
        [customer_id |-> customers[i].customer_id,
         Country |-> customers[i].Country,
         customer_name |-> Some("Unknown"),
         state |-> customers[i].Country,
         email |-> NULL, customer_segment |-> NULL,
         source_system |-> Some("RETAIL_OLTP")]]

\* 1900-01-01, the date a watermark row carries before its first load
Epoch1900 == 0
\* last_date and last_date.year > 1900
LoadedBefore(watermark) ==
    /\ watermark.found
    /\ ~IsNull(watermark.date)
    /\ Val(watermark.date) > Epoch1900

\* df[df['InvoiceDate'].dt.date > last_date], when a date was loaded before
AfterLastDate(csv, watermark) ==
    IF LoadedBefore(watermark)
    THEN SelectSeq(csv, LAMBDA r : Gt(DateOf(r.InvoiceDate), watermark.date))
    ELSE csv

Range(s) == {s[i] : i \in DOMAIN s}

\* load_customer_multisource_incremental: reconcile, run the SCD loop in one
\* transaction, then update the watermark of each source
load_customer_multisource_incremental(w, d, csv, df_demo, watermark, day, fault, ts) ==
    LET df_oltp == AfterLastDate(
                       SelectSeq(csv, LAMBDA r : ~IsNull(r.CustomerID)
                                                 /\ ~IsNull(r.InvoiceDate)),
                       watermark)
        customers_oltp == CustomersOf(df_oltp)
        merged_customers ==
            IF df_demo # <<>>
            THEN reconcile_customer_data(customers_oltp, df_demo).merged
            ELSE OltpOnly(customers_oltp)
        loop == ScdLoop(d, merged_customers,
                        {"state", "email", "customer_segment"}, day)
        done == StepsDone(fault)
        w1 == IF df_oltp # <<>>
              THEN update_watermark(w, "dim_customer", "RETAIL_OLTP", NULL,
                       DateOf(ColMax(Range(df_oltp), "InvoiceDate")), NULL,
                       loop.inserted + loop.updated, 0, ts)
              ELSE w
        w2 == IF df_demo # <<>>
              THEN update_watermark(w1, "dim_customer",
                       "CUSTOMER_DEMOGRAPHICS", NULL, Some(day), NULL,
                       Len(df_demo), 0, ts)
              ELSE w1
    IN  [wm |-> IF done.mark THEN w2 ELSE w,
         dim |-> IF done.write THEN loop.dim ELSE d,
         status |-> done.status,
         merged |-> merged_customers,
         result |-> IF done.write
                    THEN [inserted |-> loop.inserted,
                          updated |-> loop.updated,
                          rejected |-> 0, total |-> loop.skipped]
                    ELSE NoStats]

---------------------------------------------------------------------------
(* The loader's specification *)

CallRecord(op, table_name, source_df, source_system, watermark, fault, out) ==
    [op |-> op, table_name |-> table_name, source_df |-> source_df,
     source_system |-> source_system, watermark |-> watermark,
     fault |-> fault, status |-> out.status, result |-> out.result,
     new_records |-> out.new_records, valid |-> out.valid,
     rejected |-> out.rejected, pre_wm |-> wm, pre_fact |-> fact]

IsLoad(c) == c.op \in {"load_fact", "load_dimension"}

NoCall ==
    [op |-> "none", table_name |-> "none", source_df |-> {},
     source_system |-> NoSource, watermark |-> NONE, fault |-> "none",
     status |-> "none", result |-> NoStats, new_records |-> {},
     valid |-> {}, rejected |-> {}, pre_wm |-> <<>>, pre_fact |-> EmptyBag]

LoadFactSalesIncremental ==
    /\ now < MaxCalls
    /\ UNCHANGED <<triggers, quality_results>>
    /\ \E source_df \in FactFrames, source_system \in LoaderSourceArgs,
          fault \in FaultPoints :
         \E watermark \in get_last_watermark(wm, "fact_sales", source_system) :
            LET out == load_fact_sales_incremental(wm, fact, quarantine,
                           source_df, source_system, watermark, fault,
                           now + 1)
            IN  /\ FaultApplies(fault, out.new_records, out.valid,
                                out.rejected)
                /\ wm' = out.wm
                /\ fact' = out.fact
                /\ quarantine' = out.quarantine
                /\ now' = now + 1
                /\ call' = CallRecord("load_fact", "fact_sales", source_df,
                                      source_system, watermark, fault, out)
                /\ UNCHANGED <<dim, today>>

LoadDimension(frames) ==
    /\ now < MaxCalls
    /\ UNCHANGED <<triggers, quality_results>>
    /\ \E source_df \in frames, source_system \in LoaderSourceArgs,
          fault \in FaultPoints :
         \E watermark \in
                get_last_watermark(wm, "dim_customer", source_system) :
           \E sorted \in SortValues(
                  NewRecordsDimension(source_df, "modified_date", watermark),
                  "modified_date") :
            LET out == load_dimension_incremental(wm, dim, quarantine,
                           source_df, "dim_customer", "modified_date",
                           "customer_id", source_system, sorted, fault,
                           now + 1)
            IN  /\ FaultApplies(fault, out.new_records, out.valid,
                                out.rejected)
                /\ wm' = out.wm
                /\ dim' = out.dim
                /\ quarantine' = out.quarantine
                /\ now' = now + 1
                /\ call' = CallRecord("load_dimension", "dim_customer",
                                      source_df, source_system, watermark,
                                      fault, out)
                /\ UNCHANGED <<fact, today>>

LoadDimensionIncremental == LoadDimension(DimFrames)

\* The rows etl_watermark can hold before the first load: none, the rows of
\* one source system, or the rows of both
SeedChoices == {{}, Tables \X {"RETAIL_OLTP"}, Tables \X Sources}

Init ==
    /\ \E seeded \in SeedChoices : wm = [k \in seeded |-> SeedRow]
    /\ fact = EmptyBag
    /\ quarantine = EmptyBag
    /\ dim = <<>>
    /\ now = 0
    /\ today = 1
    /\ etl_status = "never run"
    /\ pc = [t \in Triggers |-> "idle"]
    /\ quality_results = NoResults
    /\ call = NoCall

Next ==
    \/ LoadFactSalesIncremental
    \/ LoadDimensionIncremental

Spec == Init /\ [][Next]_vars

---------------------------------------------------------------------------
(* Properties of the loader, checked under Spec *)

\* C2 (as claimed): with no watermark record for (table, source), a second
\* fact load of the same source set right after a successful first one
\* processes no row: its batch is empty, it returns inserted = 0 and
\* fact_sales is left as it was.
C2_SecondRunLoadsNothing ==
    [][(/\ call.op = "load_fact" /\ call'.op = "load_fact"
        /\ ~call.watermark.found
        /\ call.status = "ok"
        /\ call'.source_df = call.source_df
        /\ call'.source_system = call.source_system)
       => (/\ call'.new_records = {}
           /\ call'.result.inserted = 0
           /\ fact' = fact)]_vars

\* C3 (as claimed): when get_last_watermark returned None before a
\* successful load of a non-empty batch, it returns afterwards a record whose
\* timestamp and date are the maximum of the loaded batch.
C3_FirstLoadCreatesWatermark ==
    (/\ IsLoad(call)
     /\ ~call.watermark.found
     /\ call.status = "ok"
     /\ call.new_records # {})
    => \A got \in get_last_watermark(wm, call.table_name, call.source_system) :
          LET col == IF call.op = "load_fact" THEN "transaction_date"
                     ELSE "modified_date"
          IN  /\ got.found
              /\ got.timestamp = ColMax(call.new_records, col)
              /\ got.date = DateOf(ColMax(call.new_records, col))

\* The quarantine rows a call wrote carry its timestamp
LoggedBy(ts) ==
    {q.row : q \in {x \in BagToSet(quarantine) : x.rejection_timestamp = ts}}

\* C4: in fact mode with a timestamp watermark, the batch holds only rows
\* whose timestamp is strictly greater than last_loaded_timestamp; a source
\* row at or before the watermark is neither inserted into fact_sales nor
\* quarantined by the call.
C4_OnlyStrictlyNewerRows ==
    (/\ call.op = "load_fact"
     /\ call.watermark.found
     /\ ~IsNull(call.watermark.timestamp))
    => /\ \A r \in call.new_records :
              Gt(r.transaction_date, call.watermark.timestamp)
       /\ \A r \in call.source_df :
              ~Gt(r.transaction_date, call.watermark.timestamp)
              => /\ CopiesIn(r, fact) = CopiesIn(r, call.pre_fact)
                 /\ r \notin LoggedBy(now)

\* C4's case: a successful fact load whose source holds a row at the
\* watermark's timestamp and a newer row that is inserted
C4_Witness ==
    /\ call.op = "load_fact"
    /\ call.status = "ok"
    /\ call.watermark.found
    /\ \E r \in call.source_df :
           r.transaction_date = call.watermark.timestamp
    /\ call.result.inserted > 0

\* C5: a load whose filtered batch is empty succeeds with zero counts and
\* changes neither its target table, nor the quarantine table, nor any
\* field of any watermark row.
C5_EmptyBatchIsNoOp ==
    [][(IsLoad(call') /\ call'.new_records = {})
       => (/\ call'.status = "ok"
           /\ call'.result = NoStats
           /\ UNCHANGED <<wm, fact, dim, quarantine>>)]_vars

\* C5's case: a load over a non-empty source none of whose rows is newer
\* than the timestamp watermark
C5_Witness ==
    /\ IsLoad(call)
    /\ call.source_df # {}
    /\ call.new_records = {}
    /\ call.watermark.found
    /\ ~IsNull(call.watermark.timestamp)

\* C6: a load in which the target-table write or the watermark update raises
\* ends by raising, and leaves every watermark row as it was; the watermark
\* changes only in a call that has written its target table.
C6_RaiseLeavesWatermark ==
    [][/\ call'.fault \in {"raise_write", "raise_watermark"}
          => call'.status = "raised"
       /\ call'.status = "raised" => wm' = wm
       /\ wm' # wm
          => /\ call'.op = "load_fact"
                => fact' = fact (+) SetToBag(call'.valid)
             /\ call'.op = "load_dimension"
                => \E sorted \in SortValues(call'.new_records,
                                            "modified_date") :
                      dim' = upsert_dimension(dim,
                                 SelectSeq(sorted,
                                     LAMBDA r : r \in call'.valid),
                                 "customer_id").dim]_vars

\* C6's case: the watermark update raises after rows were written, for a
\* pair whose watermark row exists
C6_Witness ==
    /\ IsLoad(call)
    /\ call.fault = "raise_watermark"
    /\ call.status = "raised"
    /\ call.valid # {}
    /\ call.watermark.found
    /\ ~IsNull(call.watermark.timestamp)

\* C7 (as claimed): a load that ends by raising leaves none of its batch in
\* the target table.  Stated for pairs whose watermark row exists, so that
\* the row update_watermark never creates plays no part.
C7_RaiseRollsBackBatch ==
    [][(call'.status = "raised" /\ call'.watermark.found)
       => (fact' = fact /\ dim' = dim)]_vars

\* C8 (as claimed): a fact load killed before its watermark update commits
\* and retried with the same source rows ends in the state of one
\* uninterrupted load: fact_sales holds the rows it held before the killed
\* call plus the batch's valid rows once, and the watermark is advanced to
\* the batch's maximum.  Stated for pairs whose watermark row exists.
C8_RetryAfterKill ==
    [][(/\ call.op = "load_fact" /\ call'.op = "load_fact"
        /\ call.status = "killed"
        /\ call.watermark.found
        /\ call'.status = "ok"
        /\ call'.source_df = call.source_df
        /\ call'.source_system = call.source_system)
       => LET once == load_fact_sales_incremental(call.pre_wm, call.pre_fact,
                          EmptyBag, call.source_df, call.source_system,
                          call.watermark, "none", now')
          IN  /\ fact' = once.fact
              /\ wm' = once.wm]_vars


---------------------------------------------------------------------------
(* Incremental fact script: load_fact_sales_incremental.py *)

\* SELECT product_id, product_key FROM dim_product
ProductIds == {"P1"}
product_map == [pid \in ProductIds |-> 1]
\* SELECT region, store_key FROM dim_store
Regions == {"UK", "FR"}
store_map == [region \in Regions |-> IF region = "UK" THEN 1 ELSE 2]

\* dict(SELECT customer_id, customer_key ... WHERE is_current = TRUE): the
\* maps dict() can build, one current row per customer_id
customer_maps(d) ==
    LET current == {i \in DOMAIN d : d[i].is_current = Some(TRUE)}
        ids == {Val(d[i].customer_id) : i \in current}
    IN  {m \in [ids -> {Val(d[i].customer_key) : i \in current}] :
            \A cid \in ids : \E i \in current :
                /\ d[i].customer_id = Some(cid)
                /\ d[i].customer_key = Some(m[cid])}

\* The fact row of one CSV row, or none when a key does not resolve
FactRowsOf(row, customer_map) ==
    IF \/ row.StockCode \notin DOMAIN product_map
       \/ Val(row.CustomerID) \notin DOMAIN customer_map
       \/ Val(row.Country) \notin DOMAIN store_map
    THEN <<>>
    ELSE <<[customer_key |-> Some(customer_map[Val(row.CustomerID)]),
            product_key |-> Some(product_map[row.StockCode]),
            store_key |-> Some(store_map[Val(row.Country)]),
            time_key |-> DateOf(row.InvoiceDate),
            quantity_sold |-> row.Quantity,
            sales_amount |-> Some(Val(row.Quantity) * Val(row.UnitPrice)),
            discount_amount |-> Some(0)]>>

RECURSIVE FactRows(_, _)
FactRows(df, customer_map) ==
    IF df = <<>> THEN <<>>
    ELSE FactRowsOf(Head(df), customer_map)
             \o FactRows(Tail(df), customer_map)

RECURSIVE BagOfSeq(_)
BagOfSeq(rows) ==
    IF rows = <<>> THEN EmptyBag
    ELSE SetToBag({Head(rows)}) (+) BagOfSeq(Tail(rows))

\* load_fact_sales_incremental(): the state a run of the script ends with
script_load_fact_sales(w, f, csv, watermark, customer_map, ts) ==
    LET df == AfterLastDate(
                  SelectSeq(csv, LAMBDA r : /\ ~IsNull(r.CustomerID)
                                            /\ Gt(r.Quantity, Some(0))
                                            /\ ~IsNull(r.InvoiceDate)),
                  watermark)
        fact_rows == FactRows(df, customer_map)
    IN  IF df = <<>> \/ fact_rows = <<>>
        THEN [wm |-> w, fact |-> f, df |-> df, fact_rows |-> fact_rows]
        ELSE [wm |-> update_watermark(w, "fact_sales", "RETAIL_OLTP", NULL,
                         DateOf(ColMax(Range(df), "InvoiceDate")),
                         ColMax(Range(df), "InvoiceNo"), Len(fact_rows), 0,
                         ts),
              fact |-> f (+) BagOfSeq(fact_rows),
              df |-> df, fact_rows |-> fact_rows]

---------------------------------------------------------------------------
(* Source files of the scripts *)

SeqsUpTo(S, n) == UNION {[1..k -> S] : k \in 0..n}

\* Rows of the online-retail CSV as the customer loaders read it
CustomerCsvRows ==
    {r \in [InvoiceNo : {Some(1)}, StockCode : {"P1"}, Quantity : {Some(1)},
            InvoiceDate : {Some(1), Some(MaxTs)}, UnitPrice : {Some(1)},
            CustomerID : {NULL, Some(1)},
            Country : {Some("UK"), Some("FR")}] :
        IsNull(r.CustomerID) =>
            r.Country = Some("UK") /\ r.InvoiceDate = Some(1)}

\* Rows of the customer demographics file; an empty cell reads as NaN
DemographicsRows ==
    [customer_id : {Some(1)}, customer_name : {Some("Ann")},
     email : {NAN, Some("ann@example.com")},
     customer_segment : {Some("Gold")}, city : {Some("Leeds")},
     state : {Some("UK"), Some("CA")}]

\* Rows of the online-retail CSV as the fact script reads it
SalesCsvRows ==
    {r \in [InvoiceNo : {Some(1), Some(2)}, StockCode : {"P1", "P9"},
            Quantity : {Some(0), Some(1)},
            InvoiceDate : {Some(t) : t \in Timestamps},
            UnitPrice : {Some(1)}, CustomerID : {Some(1)},
            Country : {Some("UK")}] :
        (r.StockCode = "P9" \/ r.Quantity = Some(0)) =>
            r.InvoiceNo = Some(2) /\ r.InvoiceDate = Some(MaxTs)}

\* A dim_customer extract that carries the validity flag, as dimension mode
\* needs it to insert a row the readers of is_current = TRUE can see
DimFeedRows ==
    [customer_id : {Some(1)}, customer_name : {Some("Ann")},
     state : {Some("UK")}, is_current : {Some(TRUE)},
     modified_date : {Some(t) : t \in Timestamps}]

DimFeedFrames == {df \in SUBSET DimFeedRows : Cardinality(df) <= MaxBatch}

---------------------------------------------------------------------------
(* The customer dimension's specification *)

ScdCall(op, rows, fault, status, result) ==
    [op |-> op, rows |-> rows, fault |-> fault, status |-> status,
     result |-> result, pre_dim |-> dim, pre_wm |-> wm]

LoadCustomerScd ==
    /\ now < MaxCalls
    /\ UNCHANGED <<triggers, quality_results>>
    /\ \E csv \in SeqsUpTo(CustomerCsvRows, MaxBatch),
          fault \in {"none", "raise_write"} :
         LET out == load_customer_scd(dim, csv, today, fault)
         IN  /\ fault # "none" => csv # <<>>
             /\ dim' = out.dim
             /\ now' = now + 1
             /\ call' = ScdCall("load_customer_scd",
                                ScdRows(CustomersOf(SelectSeq(csv,
                                    LAMBDA r : ~IsNull(r.CustomerID)))),
                                fault, out.status, NoStats)
             /\ UNCHANGED <<wm, fact, quarantine, today>>

LoadCustomerMultisource ==
    /\ now < MaxCalls
    /\ UNCHANGED <<triggers, quality_results>>
    /\ \E csv \in SeqsUpTo(CustomerCsvRows, MaxBatch),
          df_demo \in SeqsUpTo(DemographicsRows, 1),
          fault \in {"none", "raise_write", "raise_watermark"} :
         \E watermark \in
                get_last_watermark(wm, "dim_customer", "RETAIL_OLTP") :
            LET out == load_customer_multisource_incremental(wm, dim, csv,
                           df_demo, watermark, today, fault, now + 1)
            IN  /\ fault # "none" => out.merged # <<>>
                /\ wm' = out.wm
                /\ dim' = out.dim
                /\ now' = now + 1
                /\ call' = ScdCall("load_customer_multisource", out.merged,
                                   fault, out.status, out.result)
                /\ UNCHANGED <<fact, quarantine, today>>

\* Dimension mode of the incremental loader on a dim_customer extract
LoadDimensionFeed == LoadDimension(DimFeedFrames)

\* The calendar day changes between two runs
Midnight ==
    /\ today < MaxDay
    /\ UNCHANGED <<triggers, quality_results>>
    /\ today' = today + 1
    /\ UNCHANGED <<wm, fact, quarantine, dim, now, call>>

NextSCD ==
    \/ LoadCustomerScd
    \/ LoadCustomerMultisource
    \/ LoadDimensionFeed
    \/ Midnight

SpecSCD == Init /\ [][NextSCD]_vars

\* The two SCD loaders alone, as master_incremental_multisource_etl.py and
\* run_etl_incremental.py run them on dim_customer
NextCustomer ==
    \/ LoadCustomerScd
    \/ LoadCustomerMultisource
    \/ Midnight

SpecCustomer == Init /\ [][NextCustomer]_vars

---------------------------------------------------------------------------
(* The fact script's specification *)

\* dim_customer after load_customer_scd has seen customer 1 in "UK"
OneCustomer ==
    load_customer_scd(<<>>,
        <<[InvoiceNo |-> Some(1), StockCode |-> "P1", Quantity |-> Some(1),
           InvoiceDate |-> Some(1), UnitPrice |-> Some(1),
           CustomerID |-> Some(1), Country |-> Some("UK")]>>, 1, "none").dim

\* etl_watermark holds the row of ('fact_sales', 'RETAIL_OLTP'), with no
\* date yet or with the date 1900-01-01
InitScript ==
    /\ \E d \in {NULL, Some(Epoch1900)} :
          wm = [k \in {<<"fact_sales", "RETAIL_OLTP">>} |->
                   [SeedRow EXCEPT !.last_loaded_date = d]]
    /\ fact = EmptyBag
    /\ quarantine = EmptyBag
    /\ dim \in {<<>>, OneCustomer}
    /\ now = 0
    /\ today = 1
    /\ etl_status = "never run"
    /\ pc = [t \in Triggers |-> "idle"]
    /\ quality_results = NoResults
    /\ call = NoCall

ScriptLoadFactSales ==
    /\ now < MaxCalls
    /\ UNCHANGED <<triggers, quality_results>>
    /\ \E csv \in SeqsUpTo(SalesCsvRows, MaxBatch) :
         \E watermark \in get_last_watermark(wm, "fact_sales", "RETAIL_OLTP"),
            customer_map \in customer_maps(dim) :
            LET out == script_load_fact_sales(wm, fact, csv, watermark,
                                              customer_map, now + 1)
            IN  /\ wm' = out.wm
                /\ fact' = out.fact
                /\ now' = now + 1
                /\ call' = [op |-> "script_load_fact", source_df |-> csv,
                            watermark |-> watermark, status |-> "ok",
                            df |-> out.df, fact_rows |-> out.fact_rows,
                            pre_wm |-> wm]
                /\ UNCHANGED <<quarantine, dim, today>>

NextScript == ScriptLoadFactSales

SpecScript == InitScript /\ [][NextScript]_vars

---------------------------------------------------------------------------
(* The validator's specification: validate_records on every frame *)

\* The rows of the frames handed to the validator, by the columns the
\* frame has: customer_key is missing from the last
ValidateRows ==
    {[customer_key : {NULL, Some(1)},
      quantity : {NULL, Some(-1), Some(0), Some(1)}],
     [customer_key : {NULL, Some(1)},
      quantity : {NULL, Some(-1), Some(0), Some(1)},
      customer_name : {NULL, Some("Ann")}],
     [quantity : {NULL, Some(-1), Some(0), Some(1)},
      customer_name : {NULL, Some("Ann")}]}

ValidateFrames ==
    UNION {{df \in SUBSET rows : Cardinality(df) <= MaxBatch} :
           rows \in ValidateRows}

ValidateTables == {"fact_sales", "dim_customer", "dim_time"}

InitValidate ==
    /\ wm = <<>>
    /\ fact = EmptyBag
    /\ quarantine = EmptyBag
    /\ dim = <<>>
    /\ now = 0
    /\ today = 1
    /\ etl_status = "never run"
    /\ pc = [t \in Triggers |-> "idle"]
    /\ quality_results = NoResults
    /\ \E df \in ValidateFrames, table_name \in ValidateTables :
          call = [op |-> "frame", table_name |-> table_name,
                  source_df |-> df, valid |-> {}, rejected |-> {}]

ValidateRecords ==
    /\ call.op = "frame"
    /\ UNCHANGED <<triggers, quality_results>>
    /\ LET parts == validate_records(call.source_df, call.table_name)
       IN  call' = [call EXCEPT !.op = "validate",
                                !.valid = parts.valid,
                                !.rejected = parts.rejected]
    /\ UNCHANGED <<wm, fact, quarantine, dim, now, today>>

NextValidate == ValidateRecords

SpecValidate == InitValidate /\ [][NextValidate]_vars


---------------------------------------------------------------------------
(* Properties of the scripts and of the validator *)

\* new is not below old; NULL is below every value
NotBelow(new, old) == IsNull(old) \/ (~IsNull(new) /\ Val(new) >= Val(old))

\* C1 (as claimed), checked under SpecScript: over successful loads of
\* ('fact_sales', 'RETAIL_OLTP'), the timestamp, the date and the last
\* invoice number of the watermark row never decrease, and neither counter
\* decreases.
C1_WatermarkMonotone ==
    [][\A k \in DOMAIN wm :
          /\ k \in DOMAIN wm'
          /\ NotBelow(wm'[k].last_loaded_timestamp,
                      wm[k].last_loaded_timestamp)
          /\ NotBelow(wm'[k].last_loaded_date, wm[k].last_loaded_date)
          /\ NotBelow(wm'[k].last_invoice_number, wm[k].last_invoice_number)
          /\ wm'[k].records_processed >= wm[k].records_processed
          /\ wm'[k].records_rejected >= wm[k].records_rejected]_vars

C10_OneCurrentRowPerKey ==
    \A i, j \in DOMAIN dim :
        (/\ SqlEq(dim[i].customer_id, dim[j].customer_id)
         /\ dim[i].is_current = Some(TRUE)
         /\ dim[j].is_current = Some(TRUE)) => i = j


---------------------------------------------------------------------------
(* Properties of the customer dimension, checked under SpecSCD *)

\* The attributes the multi-source loader compares
TrackedAttributes == {"state", "email", "customer_segment"}

IsScdCall(c) == c.op \in {"load_customer_scd", "load_customer_multisource"}

\* C11 (as claimed): a run of the multi-source loader whose every row has
\* the state, email and customer segment of the current row of its customer
\* (a missing value on both sides counts as equal) leaves dim_customer as
\* it was and counts no update.
C11_UnchangedRowIsNoOp ==
    [][(/\ now' = now + 1
        /\ call'.op = "load_customer_multisource"
        /\ call'.status = "ok"
        /\ \A k \in DOMAIN call'.rows :
              LET m == call'.rows[k]
                  cur == CurrentRows(dim, m.customer_id)
              IN  /\ cur # {}
                  /\ \A i \in cur : \A c \in TrackedAttributes :
                         dim[i][c] = m[c])
          => (dim' = dim /\ call'.result.updated = 0)]_vars


\* The columns a loader compares with the current row
TrackedBy(op) ==
    IF op = "load_customer_scd" THEN {"state"} ELSE TrackedAttributes

\* row is an open version carrying the values of the incoming row m
OpenVersionOf(row, m, day) ==
    /\ row.effective_date = Some(day)
    /\ row.expiry_date = Some(FarFuture)
    /\ row.is_current = Some(TRUE)
    /\ \A c \in {"customer_id", "customer_name", "state", "email",
                 "customer_segment"} : row[c] = m[c]

\* C12, checked under SpecCustomer: an SCD run on one row whose customer
\* has no current row appends one row with effective_date = today, the
\* sentinel expiry_date and is_current = TRUE; on one row that differs from
\* the customer's current row in a compared column it closes that row
\* (expiry_date = today, is_current = FALSE) and appends exactly one open
\* row with the incoming values.  No other row changes.
C12_ScdVersioning ==
    [][(/\ now' = now + 1
        /\ IsScdCall(call')
        /\ call'.status = "ok"
        /\ Len(call'.rows) = 1)
          => LET m == call'.rows[1]
                 cur == CurrentRows(dim, m.customer_id)
                 n == Len(dim)
             IN  /\ cur = {}
                      => /\ Len(dim') = n + 1
                         /\ \A i \in 1..n : dim'[i] = dim[i]
                         /\ OpenVersionOf(dim'[n + 1], m, today)
                 /\ \A i \in cur :
                      (/\ cur = {i}
                       /\ \E c \in TrackedBy(call'.op) : dim[i][c] # m[c])
                      => /\ Len(dim') = n + 1
                         /\ dim'[i] = [dim[i] EXCEPT
                                          !.expiry_date = Some(today),
                                          !.is_current = Some(FALSE)]
                         /\ \A j \in (1..n) \ {i} : dim'[j] = dim[j]
                         /\ OpenVersionOf(dim'[n + 1], m, today)]_vars

\* C12's case: a run on one row has closed the customer's current row,
\* which differed in a compared column
C12_Witness ==
    /\ IsScdCall(call)
    /\ call.status = "ok"
    /\ Len(call.rows) = 1
    /\ \E i \in CurrentRows(call.pre_dim, call.rows[1].customer_id) :
          /\ call.pre_dim[i].state # call.rows[1].state
          /\ dim[i].is_current = Some(FALSE)


\* The versions of the customer of row i that were inserted after it
LaterVersions(d, i) ==
    {j \in DOMAIN d : j > i /\ SqlEq(d[j].customer_id, d[i].customer_id)}

\* C13, checked under SpecCustomer: the versions of a customer, in the
\* order of their insertion, have windows [effective_date, expiry_date)
\* that follow one another without gap or overlap (each closed version ends
\* on the day the next one starts), and only the last version is current,
\* with the sentinel expiry_date; several changes on one day included.
C13_ValidityWindows ==
    \A i \in DOMAIN dim :
        LET later == LaterVersions(dim, i)
        IN  /\ Val(dim[i].effective_date) <= Val(dim[i].expiry_date)
            /\ IF later = {}
               THEN /\ dim[i].is_current = Some(TRUE)
                    /\ dim[i].expiry_date = Some(FarFuture)
               ELSE LET next == CHOOSE j \in later : \A k \in later : j <= k
                    IN  /\ dim[i].is_current = Some(FALSE)
                        /\ dim[i].expiry_date = dim[next].effective_date

\* C13's case: a customer changed twice on one day
C13_Witness ==
    \E i, j, k \in DOMAIN dim :
        /\ i < j /\ j < k
        /\ j \in LaterVersions(dim, i)
        /\ k \in LaterVersions(dim, j)
        /\ dim[j].effective_date = dim[k].effective_date


---------------------------------------------------------------------------
(* Further properties of the loader and of the watermark store *)

\* The descriptive columns of a dimension row
PayloadColumns ==
    {"customer_id", "customer_name", "state", "email", "customer_segment"}

\* C14 (as claimed), checked under Spec: a dimension-mode load keeps every
\* row that dim_customer held before it, with the attribute values the row
\* had; a changed customer gets a further row.
C14_DimensionModeKeepsHistory ==
    [][\A i \in DOMAIN dim :
          /\ i \in DOMAIN dim'
          /\ \A c \in PayloadColumns : dim'[i][c] = dim[i][c]]_vars


---------------------------------------------------------------------------
(* Triggers of the pipeline: routers/etl.py and schedule_etl.py.  A run of *)
(* the pipeline is followed through its watermark read and its watermark   *)
(* update.                                                                 *)

warehouse == <<wm, fact, quarantine, dim, now, today, call>>

\* run_etl: refuse with 409 when the flag says "running", else queue
\* _run_script as a background task and answer
ApiRunEtl(t) ==
    /\ t \in ApiRequests
    /\ pc[t] = "idle"
    /\ pc' = [pc EXCEPT ![t] = IF etl_status = "running"
                               THEN "refused" ELSE "queued"]
    /\ UNCHANGED <<etl_status, warehouse, quality_results>>

\* _run_script: set the flag, then start the pipeline's process
ApiRunScript(t) ==
    /\ t \in ApiRequests
    /\ pc[t] = "queued"
    /\ etl_status' = "running"
    /\ pc' = [pc EXCEPT ![t] = "started"]
    /\ UNCHANGED <<warehouse, quality_results>>

\* The cron job fires; max_instances=1 keeps a second instance of the job
\* from starting while one runs
CronFire ==
    /\ pc["cron"] = "idle"
    /\ pc' = [pc EXCEPT !["cron"] = "started"]
    /\ UNCHANGED <<etl_status, warehouse, quality_results>>

\* The run reads the watermark
RunReadWatermark(t) ==
    /\ pc[t] = "started"
    /\ pc' = [pc EXCEPT ![t] = "loading"]
    /\ UNCHANGED <<etl_status, warehouse, quality_results>>

\* The run updates the watermark
RunUpdateWatermark(t) ==
    /\ pc[t] = "loading"
    /\ pc' = [pc EXCEPT ![t] = "marked"]
    /\ UNCHANGED <<etl_status, warehouse, quality_results>>

\* The run ends; _run_script records the outcome of its process
RunEnd(t) ==
    /\ pc[t] = "marked"
    /\ pc' = [pc EXCEPT ![t] = "done"]
    /\ IF t \in ApiRequests
       THEN etl_status' \in {"success", "failed"}
       ELSE UNCHANGED etl_status
    /\ UNCHANGED <<warehouse, quality_results>>

\* The next request, or the next firing of the cron job
NextTrigger(t) ==
    /\ pc[t] \in {"done", "refused"}
    /\ pc' = [pc EXCEPT ![t] = "idle"]
    /\ UNCHANGED <<etl_status, warehouse, quality_results>>

NextTriggers ==
    \/ \E t \in ApiRequests : ApiRunEtl(t)
    \/ \E t \in ApiRequests : ApiRunScript(t)
    \/ CronFire
    \/ \E t \in Triggers : RunReadWatermark(t)
    \/ \E t \in Triggers : RunUpdateWatermark(t)
    \/ \E t \in Triggers : RunEnd(t)
    \/ \E t \in Triggers : NextTrigger(t)

SpecTriggers == Init /\ [][NextTriggers]_vars

\* C15 (as claimed), checked under SpecTriggers: no run is started while
\* another run is between its watermark read and its watermark update.
C15_OneRunAtATime ==
    [][\A t \in Triggers :
          (pc[t] # "started" /\ pc'[t] = "started")
              => \A u \in Triggers \ {t} : pc[u] # "loading"]_vars


---------------------------------------------------------------------------
(* Properties of the fact script, checked under SpecScript *)

\* C16 (as claimed): every fact row a run of the script inserts carries the
\* key of a current dim_customer row and keys of dim_product and dim_store,
\* and the rows of the batch whose keys did not resolve are recorded as
\* rejected: counted in records_rejected or written to the quarantine.
C16_UnresolvedKeysAreRejected ==
    [][(now' = now + 1 /\ call'.op = "script_load_fact")
          => LET unresolved == Len(call'.df) - Len(call'.fact_rows)
             IN  /\ \A k \in DOMAIN call'.fact_rows :
                       LET row == call'.fact_rows[k]
                       IN  /\ \E i \in DOMAIN dim :
                                 /\ dim[i].is_current = Some(TRUE)
                                 /\ dim[i].customer_key = row.customer_key
                           /\ \E pid \in ProductIds :
                                 row.product_key = Some(product_map[pid])
                           /\ \E region \in Regions :
                                 row.store_key = Some(store_map[region])
                 /\ unresolved > 0
                       => \/ quarantine' # quarantine
                          \/ \E k \in DOMAIN wm :
                                wm'[k].records_rejected
                                    = wm[k].records_rejected + unresolved]_vars


---------------------------------------------------------------------------
(* The reconciler's specification: reconcile_customer_data on the frames   *)
(* load_customer_multisource_incremental hands it                          *)

InitReconcile ==
    /\ wm = <<>>
    /\ fact = EmptyBag
    /\ quarantine = EmptyBag
    /\ dim = <<>>
    /\ now = 0
    /\ today = 1
    /\ etl_status = "never run"
    /\ pc = [t \in Triggers |-> "idle"]
    /\ quality_results = NoResults
    /\ \E csv \in SeqsUpTo({r \in CustomerCsvRows : ~IsNull(r.CustomerID)},
                           MaxBatch),
          df_demo \in SeqsUpTo(DemographicsRows, MaxBatch) \ {<<>>} :
          call = [op |-> "sources", oltp_data |-> CustomersOf(csv),
                  demographics_data |-> df_demo, merged |-> <<>>,
                  log |-> <<>>]

ReconcileCustomerData ==
    /\ call.op = "sources"
    /\ LET out == reconcile_customer_data(call.oltp_data,
                                          call.demographics_data)
       IN  call' = [call EXCEPT !.op = "reconcile",
                                !.merged = out.merged,
                                !.log = out.log]
    /\ UNCHANGED <<wm, fact, quarantine, dim, now, today, triggers, quality_results>>

NextReconcile == ReconcileCustomerData

SpecReconcile == InitReconcile /\ [][NextReconcile]_vars

\* C17 (as claimed), checked under SpecReconcile: when the OLTP source and
\* the demographics file give a customer different non-null states, every
\* merged row of the customer carries the OLTP value and the conflict log
\* holds exactly one entry for the customer, with both values, the resolved
\* value and the rule.
C17_ConflictIsResolvedAndLogged ==
    call.op = "reconcile" =>
        \A i \in DOMAIN call.oltp_data, j \in DOMAIN call.demographics_data :
            LET o == call.oltp_data[i]
                x == call.demographics_data[j]
                entries == {k \in DOMAIN call.log :
                               call.log[k].customer_id = o.customer_id}
            IN  (/\ o.customer_id = x.customer_id
                 /\ NotNA(o.Country) /\ NotNA(x.state)
                 /\ o.Country # x.state
                 /\ Len(call.oltp_data) = 1
                 /\ Len(call.demographics_data) = 1)
                  => /\ \A k \in DOMAIN call.merged :
                            call.merged[k].state = o.Country
                     /\ Cardinality(entries) = 1
                     /\ \A k \in entries :
                            /\ call.log[k].resolved_value = o.Country
                            /\ {call.log[k].source1_value,
                                call.log[k].source2_value}
                                   = {o.Country, x.state}


---------------------------------------------------------------------------
(* Properties of the watermark store *)

\* C18 (as claimed), checked under Spec: a load without a source system
\* reads, among the watermark rows of its table, one with the largest
\* updated_at.
C18_ReadsMostRecentlyUpdated ==
    (IsLoad(call) /\ call.source_system = NoSource /\ call.watermark.found)
        => \E k \in DOMAIN call.pre_wm :
              /\ k[1] = call.table_name
              /\ call.watermark = WatermarkDict(call.pre_wm[k])
              /\ \A j \in DOMAIN call.pre_wm :
                    j[1] = call.table_name
                        => call.pre_wm[k].updated_at
                               >= call.pre_wm[j].updated_at


---------------------------------------------------------------------------
(* The watermark store on its own: calls of update_watermark *)

InvoiceNumbers == {NULL, Some("536365")}

\* update_watermark(table_name, source_system, new_timestamp, new_date,
\* invoice_number, records_processed, records_rejected): the UPDATE and its
\* commit are one step
UpdateWatermark ==
    /\ now < MaxCalls
    /\ \E table_name \in Tables, source_system \in SourceArgs,
          new_timestamp \in {NULL} \cup {Some(t) : t \in Timestamps},
          new_date \in {NULL} \cup {Some(d) : d \in 1..MaxDay},
          invoice_number \in InvoiceNumbers,
          records_processed \in 0..1, records_rejected \in 0..1 :
         /\ wm' = update_watermark(wm, table_name, source_system,
                      new_timestamp, new_date, invoice_number,
                      records_processed, records_rejected, now + 1)
         /\ call' = [op |-> "update_watermark", table_name |-> table_name,
                     source_system |-> source_system,
                     new_timestamp |-> new_timestamp, new_date |-> new_date,
                     invoice_number |-> invoice_number,
                     records_processed |-> records_processed,
                     records_rejected |-> records_rejected, pre_wm |-> wm]
    /\ now' = now + 1
    /\ UNCHANGED <<fact, quarantine, dim, today, triggers, quality_results>>

NextWatermark == UpdateWatermark

SpecWatermark == Init /\ [][NextWatermark]_vars

\* C19, checked under SpecWatermark: a call of update_watermark changes the
\* rows it addresses, and only those, in one step: the timestamp, the date
\* and the invoice number each become the supplied value when one was
\* supplied and keep the previous value otherwise, and the two counters
\* become the previous total plus the supplied delta.  No state lies between
\* the row before and the row after.
C19_UpdateIsKeepIfNotSuppliedMerge ==
    [][\A k \in DOMAIN wm :
          IF WatermarkTarget(k, call'.table_name, call'.source_system)
          THEN /\ k \in DOMAIN wm'
               /\ wm'[k].last_loaded_timestamp =
                      (IF IsNull(call'.new_timestamp)
                       THEN wm[k].last_loaded_timestamp
                       ELSE call'.new_timestamp)
               /\ wm'[k].last_loaded_date =
                      (IF IsNull(call'.new_date)
                       THEN wm[k].last_loaded_date
                       ELSE call'.new_date)
               /\ wm'[k].last_invoice_number =
                      (IF IsNull(call'.invoice_number)
                       THEN wm[k].last_invoice_number
                       ELSE call'.invoice_number)
               /\ wm'[k].records_processed =
                      wm[k].records_processed + call'.records_processed
               /\ wm'[k].records_rejected =
                      wm[k].records_rejected + call'.records_rejected
          ELSE k \in DOMAIN wm' /\ wm'[k] = wm[k]]_vars

\* A second update that supplies a date only, on a row that already has a
\* timestamp, an invoice number and non-zero totals
C19_Witness ==
    /\ call.op = "update_watermark"
    /\ call.source_system = "RETAIL_OLTP"
    /\ IsNull(call.new_timestamp)
    /\ IsNull(call.invoice_number)
    /\ ~IsNull(call.new_date)
    /\ call.records_processed = 1
    /\ LET k == <<call.table_name, call.source_system>>
       IN  /\ k \in DOMAIN call.pre_wm
           /\ ~IsNull(call.pre_wm[k].last_loaded_timestamp)
           /\ ~IsNull(call.pre_wm[k].last_invoice_number)
           /\ call.pre_wm[k].records_processed = 1
           /\ wm[k].last_loaded_timestamp =
                  call.pre_wm[k].last_loaded_timestamp
           /\ wm[k].last_loaded_date = call.new_date
           /\ wm[k].records_processed = 2


---------------------------------------------------------------------------
(* Referential integrity check: advanced_data_quality.py *)

\* LIMIT of the sample query
SampleLimit == 10

\* Mutant of LeftJoinNull: each orphaned key is counted once
LeftJoinNull_DistinctKeys(f, d, fact_fk, dim_pk) ==
    SetToBag({r \in BagToSet(f) :
                 \A i \in DOMAIN d : ~SqlEq(r[fact_fk], d[i][dim_pk])})

\* FROM f LEFT JOIN d ON f.fk = d.pk WHERE d.pk IS NULL: the fact rows that
\* join no dimension row, each as often as the fact table holds it
LeftJoinNull(f, d, fact_fk, dim_pk) ==
    LET orphans == {r \in BagToSet(f) :
                       \A i \in DOMAIN d : ~SqlEq(r[fact_fk], d[i][dim_pk])}
    IN  [r \in orphans |-> f[r]]

\* SELECT DISTINCT ... LIMIT 10: any SampleLimit of the keys when there are
\* more
SampleKeys(keys) ==
    IF Cardinality(keys) <= SampleLimit THEN {keys}
    ELSE {S \in SUBSET keys : Cardinality(S) = SampleLimit}

\* The results check_referential_integrity can return
check_referential_integrity(f, d, fact_fk, dim_pk) ==
    LET orphaned == LeftJoinNull(f, d, fact_fk, dim_pk)
        orphaned_count == BagCardinality(orphaned)
        distinct == {r[fact_fk] : r \in BagToSet(orphaned)}
        samples == IF orphaned_count > 0 THEN SampleKeys(distinct) ELSE {{}}
    IN  {[orphaned_records |-> orphaned_count,
          sample_orphaned_keys |-> smp,
          status |-> IF orphaned_count = 0 THEN "PASS" ELSE "FAIL"] :
            smp \in samples}

\* Fact tables: one sale for each of the keys 1..n, and up to MaxBatch
\* further sales whose key is NULL, the smallest or the largest key
KeyedSale(k) == [customer_key |-> k, quantity |-> Some(1)]

IntegrityFactTables ==
    {SetToBag({KeyedSale(Some(k)) : k \in 1..n}) (+) BagOfSeq(more) :
        n \in 0..MaxKeys,
        more \in SeqsUpTo({KeyedSale(NULL), KeyedSale(Some(1)),
                           KeyedSale(Some(MaxKeys))}, MaxBatch)}

\* Dimension tables: the customers lo..hi
IntegrityDimTables ==
    {[i \in 1..(IF hi < lo THEN 0 ELSE hi - lo + 1) |->
         [customer_key |-> Some(lo + i - 1), customer_name |-> Some("Ann")]] :
        lo \in 1..MaxBatch + 1, hi \in 0..MaxKeys}

InitIntegrity ==
    /\ wm = <<>>
    /\ fact \in IntegrityFactTables
    /\ dim \in IntegrityDimTables
    /\ quarantine = EmptyBag
    /\ now = 0
    /\ today = 1
    /\ etl_status = "never run"
    /\ pc = [t \in Triggers |-> "idle"]
    /\ quality_results = NoResults
    /\ call = [op |-> "tables"]

\* The counter of the result's status goes up by one and the result is
\* appended to the details
RecordResult(qr, result) ==
    [checks_passed |->
         qr.checks_passed + (IF result.status = "PASS" THEN 1 ELSE 0),
     checks_warning |->
         qr.checks_warning + (IF result.status = "WARNING" THEN 1 ELSE 0),
     checks_failed |->
         qr.checks_failed + (IF result.status = "FAIL" THEN 1 ELSE 0),
     details |-> Append(qr.details, result)]

CheckReferentialIntegrity ==
    /\ now < MaxCalls
    /\ \E result \in check_referential_integrity(fact, dim, "customer_key",
                                                 "customer_key") :
          /\ call' = [op |-> "check_referential_integrity",
                      result |-> result, pre_results |-> quality_results]
          /\ quality_results' = RecordResult(quality_results, result)
    /\ now' = now + 1
    /\ UNCHANGED <<wm, fact, quarantine, dim, today, triggers>>

NextIntegrity == CheckReferentialIntegrity

SpecIntegrity == InitIntegrity /\ [][NextIntegrity]_vars

\* C20, checked under SpecIntegrity: the check reports as orphaned_records
\* the number of fact rows whose foreign key equals the primary key of no
\* dimension row, reports PASS when that number is zero and FAIL otherwise,
\* and captures at most ten sample keys, each the key of such a row; one
\* orphaned row gives orphaned_records = 1 and FAIL.
C20_ReferentialIntegrityCheck ==
    call.op = "check_referential_integrity" =>
        LET Matched(r) == \E i \in DOMAIN dim :
                             /\ ~IsNull(r.customer_key)
                             /\ dim[i].customer_key = r.customer_key
            rows == BagToSet(fact)
            matched == [r \in {x \in rows : Matched(x)} |-> fact[r]]
            orphans == BagCardinality(fact) - BagCardinality(matched)
        IN  /\ call.result.orphaned_records = orphans
            /\ call.result.status = (IF orphans = 0 THEN "PASS" ELSE "FAIL")
            /\ Cardinality(call.result.sample_orphaned_keys) <= SampleLimit
            /\ \A k \in call.result.sample_orphaned_keys :
                  \E r \in rows : r.customer_key = k /\ ~Matched(r)
            /\ orphans = 1 => /\ call.result.orphaned_records = 1
                              /\ call.result.status = "FAIL"

\* More than ten distinct orphaned keys beside rows that do match, one key
\* orphaned twice
C20_Witness ==
    /\ call.op = "check_referential_integrity"
    /\ call.result.status = "FAIL"
    /\ call.result.orphaned_records > SampleLimit + 1
    /\ Cardinality(call.result.sample_orphaned_keys) = SampleLimit
    /\ Len(dim) > 0
    /\ \E r \in BagToSet(fact) :
          /\ fact[r] > 1
          /\ \A i \in DOMAIN dim : dim[i].customer_key # r.customer_key
    /\ \E r \in BagToSet(fact), i \in DOMAIN dim :
          dim[i].customer_key = r.customer_key


---------------------------------------------------------------------------
(* Statistical anomaly detection: advanced_data_quality.py *)

RECURSIVE SumOver(_, _)
\* The sum of f[x] over the x of S
SumOver(f, S) ==
    IF S = {} THEN 0
    ELSE LET x == CHOOSE y \in S : TRUE
         IN  f[x] + SumOver(f, S \ {x})

\* SELECT column FROM table WHERE column IS NOT NULL: the bag of the values
ColumnValues(f, column_name) ==
    LET vs == {Val(r[column_name]) :
                  r \in {x \in BagToSet(f) : ~IsNull(x[column_name])}}
    IN  [v \in vs |->
            SumOver(f, {r \in BagToSet(f) : r[column_name] = Some(v)})]

\* len(values), the sum and the sum of squares; np.mean is sum / len and
\* np.std (population) is sqrt(len * squares - sum * sum) / len
Moments(values) ==
    LET vs == DOMAIN values
    IN  [len |-> SumOver(values, vs),
         sum |-> SumOver([v \in vs |-> v * values[v]], vs),
         squares |-> SumOver([v \in vs |-> v * v * values[v]], vs)]

\* len^2 times the population variance
Spread(m) == m.len * m.squares - m.sum * m.sum

\* Mutant of ZScoreExceeds: the threshold is not squared with the deviation
ZScoreExceeds_UnsquaredThreshold(v, m, z_threshold) ==
    (m.len * v - m.sum) * (m.len * v - m.sum) > z_threshold * Spread(m)

\* abs((v - mean) / std) > z_threshold, both sides squared and multiplied
\* by len^2 * variance
ZScoreExceeds(v, m, z_threshold) ==
    (m.len * v - m.sum) * (m.len * v - m.sum)
        > z_threshold * z_threshold * Spread(m)

\* The z-score is the threshold exactly: float rounding decides the test
ZScoreOnThreshold(v, m, z_threshold) ==
    (m.len * v - m.sum) * (m.len * v - m.sum)
        = z_threshold * z_threshold * Spread(m)

\* round(anomaly_percentage, 2) in hundredths of a percent; float rounding
\* decides a tie
RoundedPercentages(anomaly_count, len) ==
    LET q == (anomaly_count * 10000) \div len
        r == (anomaly_count * 10000) % len
    IN  IF 2 * r < len THEN {q}
        ELSE IF 2 * r > len THEN {q + 1}
        ELSE {q, q + 1}

\* Mutant of AnomalyStatus: the bands are on the number of flagged values
AnomalyStatus_ByCount(anomaly_count, len) ==
    IF anomaly_count < 1 THEN "PASS"
    ELSE IF anomaly_count < 5 THEN "WARNING"
    ELSE "FAIL"

\* 'PASS' if anomaly_percentage < 1 else 'WARNING' if anomaly_percentage < 5
\* else 'FAIL', with anomaly_percentage = anomaly_count / len * 100
AnomalyStatus(anomaly_count, len) ==
    IF anomaly_count * 100 < len THEN "PASS"
    ELSE IF anomaly_count * 100 < 5 * len THEN "WARNING"
    ELSE "FAIL"

\* The outcomes of detect_numerical_anomalies: the result it returns and
\* the quality_results it leaves
detect_numerical_anomalies(f, column_name, z_threshold, qr) ==
    LET values == ColumnValues(f, column_name)
        m == Moments(values)
        sure == {v \in DOMAIN values : ZScoreExceeds(v, m, z_threshold)}
        edge == {v \in DOMAIN values : ZScoreOnThreshold(v, m, z_threshold)}
    IN  IF m.len = 0
        THEN {[result |-> [status |-> "SKIP", reason |-> "No data"],
               quality_results |-> qr]}
        ELSE IF Spread(m) = 0
        THEN {[result |-> [status |-> "SKIP",
                           reason |-> "No variation in data"],
               quality_results |-> qr]}
        ELSE {LET anomaly_count == SumOver(values, sure \cup some)
                  result == [check_name |-> "Statistical Anomaly Detection",
                             column |-> column_name,
                             total_records |-> m.len,
                             anomaly_count |-> anomaly_count,
                             anomaly_percentage |-> pct,
                             anomaly_values |-> sure \cup some,
                             status |-> AnomalyStatus(anomaly_count, m.len)]
              IN  [result |-> result,
                   quality_results |-> RecordResult(qr, result)] :
                <<some, pct>> \in
                    UNION {{s} \X RoundedPercentages(
                                      SumOver(values, sure \cup s), m.len) :
                              s \in SUBSET edge}}

\* Columns of fact_sales: up to MaxRows sales of quantity 0 beside a few of
\* quantity 1, and up to four sales of quantity 10 beside a few of 1000
QuantityColumn(low, m, high, k) ==
    [r \in {[quantity |-> Some(v)] :
               v \in (IF m > 0 THEN {low} ELSE {})
                         \cup (IF k > 0 THEN {high} ELSE {})} |->
        IF r.quantity = Some(low) THEN m ELSE k]

AnomalyTables ==
    {QuantityColumn(0, m, 1, k) : m \in 0..MaxRows, k \in 0..MaxBatch}
        \cup {QuantityColumn(10, m, 1000, k) : m \in 0..4, k \in 0..MaxBatch}

ZThresholds == 1..3

InitAnomaly ==
    /\ wm = <<>>
    /\ fact \in AnomalyTables
    /\ dim = <<>>
    /\ quarantine = EmptyBag
    /\ now = 0
    /\ today = 1
    /\ etl_status = "never run"
    /\ pc = [t \in Triggers |-> "idle"]
    /\ quality_results = NoResults
    /\ call = [op |-> "tables"]

DetectNumericalAnomalies ==
    /\ now < MaxCalls
    /\ \E z_threshold \in ZThresholds :
          \E out \in detect_numerical_anomalies(fact, "quantity", z_threshold,
                                                quality_results) :
             /\ call' = [op |-> "detect_numerical_anomalies",
                         z_threshold |-> z_threshold,
                         result |-> out.result,
                         pre_results |-> quality_results]
             /\ quality_results' = out.quality_results
    /\ now' = now + 1
    /\ UNCHANGED <<wm, fact, quarantine, dim, today, triggers>>

NextAnomaly == DetectNumericalAnomalies

SpecAnomaly == InitAnomaly /\ [][NextAnomaly]_vars

\* The column [10, 10, 10, 10, 1000]
ScenarioColumn == QuantityColumn(10, 4, 1000, 1)

---------------------------------------------------------------------------
(* Duplicate detection: advanced_data_quality.py *)

\* LIMIT of the query and the slice of its rows kept as samples
DuplicateLimit == 10
DuplicateSamples == 5

\* GROUP BY unique_columns HAVING COUNT(*) > 1: a key and its count
DuplicateGroups(f, unique_columns) ==
    LET KeyOf(r) == [c \in unique_columns |-> r[c]]
        keys == {KeyOf(r) : r \in BagToSet(f)}
        CountOf(k) == SumOver(f, {r \in BagToSet(f) : KeyOf(r) = k})
    IN  {[key |-> k, count |-> CountOf(k)] : k \in {x \in keys : CountOf(x) > 1}}

\* ORDER BY COUNT(*) DESC LIMIT k: any k groups that no left-out group
\* outnumbers
TopByCount(groups, k) ==
    IF Cardinality(groups) <= k THEN {groups}
    ELSE {S \in SUBSET groups :
             /\ Cardinality(S) = k
             /\ \A a \in S, b \in groups \ S : a.count >= b.count}

\* The outcomes of check_duplicates: the result it returns and the
\* quality_results it leaves
check_duplicates(f, unique_columns, qr) ==
    {LET result == [check_name |-> "Duplicate Detection",
                    unique_columns |-> unique_columns,
                    duplicate_groups |-> Cardinality(duplicates),
                    sample_duplicates |-> samples,
                    status |-> IF Cardinality(duplicates) = 0
                               THEN "PASS" ELSE "FAIL"]
     IN  [result |-> result, quality_results |-> RecordResult(qr, result)] :
        <<duplicates, samples>> \in
            UNION {{d} \X TopByCount(d, DuplicateSamples) :
                      d \in TopByCount(DuplicateGroups(f, unique_columns),
                                       DuplicateLimit)}}

\* Fact tables: the keys 1..n, the key k occurring k + 1 times for k <= d
\* and once otherwise; with tie, key 1 occurs as often as key 2
DuplicateTable(n, d, tie) ==
    [r \in {KeyedSale(Some(k)) : k \in 1..n} |->
        LET k == Val(r.customer_key)
        IN  IF k = 1 /\ tie THEN 3
            ELSE IF k <= d THEN k + 1
            ELSE 1]

DuplicateTables ==
    {DuplicateTable(n, d, tie) :
        n \in 0..MaxKeys, d \in 0..MaxKeys, tie \in BOOLEAN}

InitDuplicates ==
    /\ wm = <<>>
    /\ fact \in DuplicateTables
    /\ dim = <<>>
    /\ quarantine = EmptyBag
    /\ now = 0
    /\ today = 1
    /\ etl_status = "never run"
    /\ pc = [t \in Triggers |-> "idle"]
    /\ quality_results = NoResults
    /\ call = [op |-> "tables"]

CheckDuplicates ==
    /\ now < MaxCalls
    /\ \E out \in check_duplicates(fact, {"customer_key"}, quality_results) :
          /\ call' = [op |-> "check_duplicates", result |-> out.result,
                      pre_results |-> quality_results]
          /\ quality_results' = out.quality_results
    /\ now' = now + 1
    /\ UNCHANGED <<wm, fact, quarantine, dim, today, triggers>>

NextDuplicates == CheckDuplicates

SpecDuplicates == InitDuplicates /\ [][NextDuplicates]_vars

\* C23 (as claimed), checked under SpecDuplicates: the check returns FAIL
\* exactly when some key value occurs in more than one row and PASS
\* otherwise, and when duplicates exist it captures
\* min(number of duplicate groups, 10) sample groups.
C23_DuplicateSamples ==
    call.op = "check_duplicates" =>
        LET keys == {r.customer_key : r \in BagToSet(fact)}
            Rows(k) == {r \in BagToSet(fact) : r.customer_key = k}
            groups == Cardinality({k \in keys : SumOver(fact, Rows(k)) > 1})
        IN  /\ call.result.status = (IF groups > 0 THEN "FAIL" ELSE "PASS")
            /\ groups > 0 =>
                  Cardinality(call.result.sample_duplicates)
                      = (IF groups < 10 THEN groups ELSE 10)


---------------------------------------------------------------------------
(* Properties of the loader's quarantine logging *)

\* C24 (as claimed), checked under Spec: when the write of the rejected
\* rows to the quarantine table fails, the fact load still returns its
\* counts with the rejected count included, the valid rows are in the
\* target table, and the watermark of the load is advanced by the rejected
\* delta.
C24_QuarantineIsBestEffort ==
    (call.op = "load_fact" /\ call.fault = "raise_quarantine")
        => /\ call.status = "ok"
           /\ call.result.rejected = Cardinality(call.rejected)
           /\ call.result.inserted = Cardinality(call.valid)
           /\ \A r \in call.valid :
                 CopiesIn(r, fact) = CopiesIn(r, call.pre_fact) + 1
           /\ \E k \in DOMAIN call.pre_wm :
                 /\ WatermarkTarget(k, call.table_name, call.source_system)
                 /\ wm[k].records_rejected
                        = call.pre_wm[k].records_rejected
                              + call.result.rejected
                 /\ wm[k].last_loaded_timestamp
                        = ColMax(call.source_df, "transaction_date")


---------------------------------------------------------------------------
(* Properties that compare the modes of the loader *)

\* C25 (as claimed), checked under SpecSCD: dimension mode selects the rows
\* fact mode would select for the same watermark and the same source rows;
\* with a watermark that holds a date and no timestamp it keeps the rows
\* whose date is after the watermark's date.
C25_DimensionModeFiltersAsFactMode ==
    call.op = "load_dimension"
        => call.new_records
               = NewRecords(call.source_df, "modified_date", call.watermark)


---------------------------------------------------------------------------
(* Properties of a batch that names a key several times *)

---------------------------------------------------------------------------
(* The validator on a DataFrame, row order and equal rows kept *)

\* valid_mask: one flag per row of the frame
ValidMask(df, table_name) ==
    [i \in DOMAIN df |-> RowValid(Range(df), table_name, df[i])]

RECURSIVE Masked(_, _, _)
\* df[mask] for flag = TRUE and df[~mask] for flag = FALSE
Masked(df, mask, flag) ==
    IF df = <<>> THEN <<>>
    ELSE LET n == Len(df)
             init == Masked(SubSeq(df, 1, n - 1),
                            [i \in 1..(n - 1) |-> mask[i]], flag)
         IN  IF mask[n] = flag THEN Append(init, df[n]) ELSE init

\* Mutant of RejectedFrame: the rows of each rule are collected rule by rule
RejectedFrame_PerRule(df, table_name) ==
    SelectSeq(df, LAMBDA r :
        \E col \in get_critical_columns(table_name) \cap Columns(Range(df)) :
            IsNull(r[col]))
      \o SelectSeq(df, LAMBDA r :
            \E col \in NumericColumns(Range(df)) :
                IsAmountColumn(col) /\ Lt(r[col], Some(0)))

\* rejected_df = df[~valid_mask].copy()
RejectedFrame(df, table_name) ==
    Masked(df, ValidMask(df, table_name), FALSE)

\* _validate_records: the two frames it returns and the frame it was given,
\* which it only reads
validate_records_frame(df, table_name) ==
    [valid_df |-> Masked(df, ValidMask(df, table_name), TRUE),
     rejected_df |-> RejectedFrame(df, table_name),
     df |-> df]

InitValidateFrame ==
    /\ wm = <<>>
    /\ fact = EmptyBag
    /\ quarantine = EmptyBag
    /\ dim = <<>>
    /\ now = 0
    /\ today = 1
    /\ etl_status = "never run"
    /\ pc = [t \in Triggers |-> "idle"]
    /\ quality_results = NoResults
    /\ \E rows \in ValidateRows, table_name \in ValidateTables :
          \E df \in SeqsUpTo(rows, MaxBatch) :
             call = [op |-> "dataframe", table_name |-> table_name,
                     input |-> df, df |-> df, valid_df |-> <<>>,
                     rejected_df |-> <<>>]

ValidateRecordsFrame ==
    /\ call.op = "dataframe"
    /\ LET out == validate_records_frame(call.df, call.table_name)
       IN  call' = [call EXCEPT !.op = "validate_records",
                                !.df = out.df,
                                !.valid_df = out.valid_df,
                                !.rejected_df = out.rejected_df]
    /\ UNCHANGED <<wm, fact, quarantine, dim, now, today, triggers, quality_results>>

NextValidateFrame == ValidateRecordsFrame

SpecValidateFrame == InitValidateFrame /\ [][NextValidateFrame]_vars

\* C27, checked under SpecValidateFrame: the two frames the validator
\* returns hold the rows of its input, each as often as the input holds it
\* and with its columns unchanged; no row is in both; the lengths add up to
\* the length of the input, so a row that breaks two rules is rejected
\* once; and the input frame is as it was.
C27_ValidateIsPartition ==
    call.op = "validate_records" =>
        /\ BagOfSeq(call.valid_df) (+) BagOfSeq(call.rejected_df)
               = BagOfSeq(call.input)
        /\ Range(call.valid_df) \cap Range(call.rejected_df) = {}
        /\ Len(call.valid_df) + Len(call.rejected_df) = Len(call.input)
        /\ call.df = call.input

\* A fact_sales frame of a row with a null key and a negative quantity and
\* of a clean row
C27_Witness ==
    /\ call.op = "validate_records"
    /\ call.table_name = "fact_sales"
    /\ Len(call.input) = 2
    /\ Len(call.rejected_df) = 1
    /\ IsNull(call.rejected_df[1].customer_key)
    /\ call.rejected_df[1].quantity = Some(-1)
    /\ Len(call.valid_df) = 1


\* The columns of a watermark row that a load writes: timestamp, date,
\* natural key and the two counters
WatermarkColumns(row) ==
    <<row.last_loaded_timestamp, row.last_loaded_date,
      row.last_invoice_number, row.records_processed, row.records_rejected>>

\* C28, checked under SpecWatermark: a call of update_watermark for one
\* (table, source) pair leaves the row of every other pair as it was; a
\* call with the source omitted leaves the timestamp, the date, the natural
\* key and the counters of the rows the table has per source as they were.
C28_UpdateLeavesOtherPairs ==
    [][call'.op = "update_watermark" /\ now' = now + 1 =>
          \A k \in DOMAIN wm :
              /\ k \in DOMAIN wm'
              /\ (k[1] # call'.table_name \/ k[2] # call'.source_system) =>
                     WatermarkColumns(wm'[k]) = WatermarkColumns(wm[k])
              /\ (k[1] # call'.table_name
                      \/ (call'.source_system # NoSource
                             /\ k[2] # call'.source_system)) =>
                     wm'[k] = wm[k]]_vars


---------------------------------------------------------------------------
(* Schema validation and the quality report: advanced_data_quality.py *)

\* The tables the inspector finds, with the column types it reports
InspectedColumns ==
    [fact_sales |-> [customer_key |-> "INTEGER", quantity |-> "INTEGER",
                     unit_price |-> "NUMERIC(10, 2)"],
     dim_customer |-> [customer_key |-> "INTEGER",
                       customer_name |-> "VARCHAR(255)"]]

\* a in b, for the upper-cased type names of the model
TypeIn(a, b) ==
    \/ a = b
    \/ <<a, b>> \in {<<"NUMERIC", "NUMERIC(10, 2)">>,
                     <<"VARCHAR", "VARCHAR(255)">>}

\* validate_schema: a table the inspector does not find counts as a failed
\* check and returns at once; otherwise the result is counted and appended
validate_schema(table_name, expected_columns, qr) ==
    IF table_name \notin DOMAIN InspectedColumns
    THEN [result |-> [status |-> "FAIL", reason |-> "Table not found"],
          quality_results |->
              [qr EXCEPT !.checks_failed = qr.checks_failed + 1]]
    ELSE LET actual_col_dict == InspectedColumns[table_name]
             missing_columns ==
                 DOMAIN expected_columns \ DOMAIN actual_col_dict
             extra_columns ==
                 DOMAIN actual_col_dict \ DOMAIN expected_columns
             type_mismatches ==
                 {col_name \in DOMAIN expected_columns
                                  \cap DOMAIN actual_col_dict :
                     /\ ~TypeIn(expected_columns[col_name],
                                actual_col_dict[col_name])
                     /\ ~TypeIn(actual_col_dict[col_name],
                                expected_columns[col_name])}
             result ==
                 [check_name |-> "Schema Validation",
                  table |-> table_name,
                  expected_columns |-> Cardinality(DOMAIN expected_columns),
                  actual_columns |-> Cardinality(DOMAIN actual_col_dict),
                  missing_columns |-> missing_columns,
                  extra_columns |-> extra_columns,
                  type_mismatches |-> type_mismatches,
                  status |-> IF missing_columns = {} /\ type_mismatches = {}
                             THEN "PASS" ELSE "FAIL"]
         IN  [result |-> result, quality_results |-> RecordResult(qr, result)]

\* The expected column types a caller passes
ExpectedSchemas ==
    {[customer_key |-> "INTEGER", quantity |-> "INTEGER",
      unit_price |-> "NUMERIC"],
     [customer_key |-> "INTEGER", quantity |-> "VARCHAR"],
     [customer_key |-> "INTEGER", total_amount |-> "NUMERIC"]}

\* The table names a caller passes; fact_returns is not in the warehouse
SchemaTables == {"fact_sales", "fact_returns"}

\* Fact tables of m sales of quantity 0 by customer 1 and k sales of
\* quantity 1 by customer 3
QualityFactTables ==
    {[r \in {[customer_key |-> Some(1), quantity |-> Some(0)] : i \in 1..m}
              \cup {[customer_key |-> Some(3), quantity |-> Some(1)] :
                       i \in 1..k} |->
         IF r.quantity = Some(0) THEN m ELSE k] :
        m \in {0, 1, 30, MaxRows}, k \in 0..MaxBatch}

QualityDimTables ==
    {d \in IntegrityDimTables : Len(d) <= 3}

InitQuality ==
    /\ wm = <<>>
    /\ fact \in QualityFactTables
    /\ dim \in QualityDimTables
    /\ quarantine = EmptyBag
    /\ now = 0
    /\ today = 1
    /\ etl_status = "never run"
    /\ pc = [t \in Triggers |-> "idle"]
    /\ quality_results = NoResults
    /\ call = [op |-> "tables"]

ValidateSchema ==
    /\ now < MaxCalls
    /\ \E table_name \in SchemaTables, expected_columns \in ExpectedSchemas :
          LET out == validate_schema(table_name, expected_columns,
                                     quality_results)
          IN  /\ call' = [op |-> "validate_schema",
                          table_name |-> table_name,
                          result |-> out.result,
                          pre_results |-> quality_results]
              /\ quality_results' = out.quality_results
    /\ now' = now + 1
    /\ UNCHANGED <<wm, fact, quarantine, dim, today, triggers>>

NextQuality ==
    \/ CheckReferentialIntegrity
    \/ DetectNumericalAnomalies
    \/ ValidateSchema
    \/ CheckDuplicates

SpecQuality == InitQuality /\ [][NextQuality]_vars

\* The number of entries of the details with the given status
CountStatus(details, status) ==
    Cardinality({i \in DOMAIN details : details[i].status = status})

\* C29, checked under SpecQuality: after any sequence of checks on one
\* instance, checks_passed, checks_warning and checks_failed are the
\* numbers of entries of details with status PASS, WARNING and FAIL.
C29_CountersMatchDetails ==
    /\ quality_results.checks_passed
           = CountStatus(quality_results.details, "PASS")
    /\ quality_results.checks_warning
           = CountStatus(quality_results.details, "WARNING")
    /\ quality_results.checks_failed
           = CountStatus(quality_results.details, "FAIL")


---------------------------------------------------------------------------
(* check_for_new_data: incremental_load.py *)

\* check_for_new_data: the answers it can give, one per watermark the read
\* can return; it filters by the timestamp of the watermark or not at all
check_for_new_data(w, source_df, table_name, timestamp_column, source_system) ==
    {IF watermark.found /\ ~IsNull(watermark.timestamp)
     THEN LET new_records ==
                  {r \in source_df :
                      Gt(r[timestamp_column], watermark.timestamp)}
          IN  [has_new_data |-> Cardinality(new_records) > 0,
               count |-> Cardinality(new_records),
               watermark |-> watermark]
     ELSE [has_new_data |-> TRUE, count |-> Cardinality(source_df),
           watermark |-> watermark] :
        watermark \in get_last_watermark(w, table_name, source_system)}

CheckForNewData ==
    /\ now < MaxCalls
    /\ \E source_df \in FactFrames, source_system \in SourceArgs :
          \E out \in check_for_new_data(wm, source_df, "fact_sales",
                                        "transaction_date", source_system) :
             call' = [op |-> "check_for_new_data", source_df |-> source_df,
                      source_system |-> source_system,
                      watermark |-> out.watermark,
                      has_new_data |-> out.has_new_data,
                      count |-> out.count]
    /\ now' = now + 1
    /\ UNCHANGED <<wm, fact, quarantine, dim, today, triggers, quality_results>>

NextCheckNew ==
    \/ UpdateWatermark
    \/ CheckForNewData

SpecCheckNew == Init /\ [][NextCheckNew]_vars

\* C30, checked under SpecCheckNew: for every watermark state and source
\* frame, the count check_for_new_data returns is the number of rows
\* load_fact_sales_incremental selects as its batch from the same frame
\* under the same watermark, and has_new_data is true exactly when that
\* count is positive.
C30_CheckAgreesWithLoader ==
    call.op = "check_for_new_data" =>
        /\ call.count
               = Cardinality(NewRecords(call.source_df, "transaction_date",
                                        call.watermark))
        /\ call.has_new_data <=> call.count > 0

====
